---- MODULE Spec2Model ----
(***************************************************************************)
(* A model of pykit's control-flow analysis (pykit/analysis/cfa.py) and of *)
(* the insertion cursor of the IR builder (pykit/ir/builder.py).           *)
(*                                                                         *)
(* A function is a record                                                  *)
(*   blocks : the sequence func.blocks (block identities, in stored order) *)
(*   body   : block identity -> the sequence of its operations (ids)       *)
(*   ops    : operation id -> [opcode, args, preds, meta]                  *)
(*   bmeta  : block identity -> the block's exc_target metadata (a set     *)
(*            holding the target, empty when the key is absent)            *)
(* An operand is a record [k, n]: an operation's result ("op"), a block    *)
(* ("block"), a constant ("const") or an Undef ("undef", one per slot).    *)
(* A phi keeps its predecessor list in preds and its values in args.       *)
(***************************************************************************)
EXTENDS Integers, Sequences, FiniteSets, TLC

\* Number of blocks of the functions the specifications enumerate.
NumBlocks == 3

\* The exit sentinel 'pykit.exit', a graph node that is no block.
Exit == 0

VARIABLES
    pc,       \* position of the running pass pipeline / driver
    func,     \* the function being transformed
    func0,    \* the function as it was handed to the driver
    CFG,      \* the Graph cfg(func) returned: its edges <<src, dst>> as added
    allocas,  \* find_allocas' result
    phis,     \* insert_phis' result: set of <<phi, alloca>>
    values,   \* compute_dataflow's outgoing maps {block : {stackvar : value}}
    dom,      \* compute_dominators' local state
    bld       \* the Builder object

vars == <<pc, func, func0, CFG, allocas, phis, values, dom, bld>>

----------------------------------------------------------------------------
\* Operands and operations

Vop(i)    == [k |-> "op", n |-> i]
Vblock(b) == [k |-> "block", n |-> b]
Vconst(c) == [k |-> "const", n |-> c]
Vundef(a) == [k |-> "undef", n |-> a]

Op(opcode, args) == [opcode |-> opcode, args |-> args, preds |-> <<>>, meta |-> {}]

OpMeta(opcode, args, meta) == [opcode |-> opcode, args |-> args, preds |-> <<>>, meta |-> meta]

Last(s) == s[Len(s)]

SeqToSet(s) == {s[i] : i \in 1..Len(s)}

\* block.terminator: the last operation of the block
terminator(F, b) == F.ops[Last(F.body[b])]

\* `x or 'pykit.exit'` for a metadata lookup that yields None when absent
OrExit(m) == IF m = {} THEN Exit ELSE CHOOSE t \in m : TRUE

----------------------------------------------------------------------------
\* Graph (pykit.adt): the edges in insertion order, no edge twice

Dedup(s) ==
    LET first == {i \in 1..Len(s) : \A j \in 1..(i - 1) : s[j] # s[i]} IN
    [k \in 1..Cardinality(first) |->
        s[CHOOSE i \in first : Cardinality({j \in first : j <= i}) = k]]

\* Graph.__getitem__: the successors of a node
Succs(G, n) == {G[i][2] : i \in {j \in 1..Len(G) : G[j][1] = n}}

\* Graph.T[n]: the predecessors of a node, in the order their edges were added
Preds(G, n) ==
    LET into == SelectSeq(G, LAMBDA e : e[2] = n) IN
    Dedup([i \in 1..Len(into) |-> into[i][1]])

\* iter(Graph): the nodes, in the order the edges first name them
RECURSIVE Flatten(_)
Flatten(ss) == IF ss = <<>> THEN <<>> ELSE Head(ss) \o Flatten(Tail(ss))

Nodes(G) == Dedup(Flatten(G))

----------------------------------------------------------------------------
\* cfg(func)

\* the targets list cfg() deduces from one block's terminator
targets(F, b) ==
    LET op == terminator(F, b) IN
    IF op.opcode = "jump" THEN <<op.args[1].n>>
    ELSE IF op.opcode = "cbranch" THEN <<op.args[2].n, op.args[3].n>>
    ELSE IF op.opcode = "ret" THEN <<>>
    ELSE <<OrExit(F.bmeta[b])>>

\* the assert of the last branch holds for every block
cfg_ok(F) == \A i \in 1..Len(F.blocks) :
    terminator(F, F.blocks[i]).opcode \in {"jump", "cbranch", "ret", "exc_throw"}

cfg(F) ==
    Dedup(Flatten([i \in 1..Len(F.blocks) |->
        LET b == F.blocks[i]
            t == targets(F, b)
        IN [j \in 1..Len(t) |-> <<b, t[j]>>]]))

----------------------------------------------------------------------------
\* Function, Block and Operation helpers (pykit.ir)

\* func.startblock: the head of the block list
startblock(F) == F.blocks[1]

\* func.ops: every operation of every block, in block order
FuncOps(F) == Flatten([i \in 1..Len(F.blocks) |-> F.body[F.blocks[i]]])

\* op.block: the block whose list holds the operation
BlockOf(F, i) == CHOOSE b \in DOMAIN F.body : i \in SeqToSet(F.body[b])

\* defuse.defuse(func)[i]: the operations of the function that have i as an operand
Uses(F, i) == {u \in SeqToSet(FuncOps(F)) : Vop(i) \in SeqToSet(F.ops[u].args)}

Without(s, S) == SelectSeq(s, LAMBDA e : e \notin S)

\* op.delete() / op.unlink() for a set of operations
Unlink(F, S) == [F EXCEPT !.body = [b \in DOMAIN F.body |-> Without(F.body[b], S)]]

Subst(args, old, new) == [j \in 1..Len(args) |-> IF args[j] = old THEN new ELSE args[j]]

\* replace_uses(op, value, uses): every operand that is op's result becomes value
replace_uses(F, i, v) ==
    [F EXCEPT !.ops = [u \in 1..Len(F.ops) |->
        [F.ops[u] EXCEPT !.args = Subst(F.ops[u].args, Vop(i), v)]]]

\* a set of operation ids as a sequence, in increasing order
RECURSIVE SetToSeq(_)
SetToSeq(S) ==
    IF S = {} THEN <<>>
    ELSE LET m == CHOOSE x \in S : \A y \in S : x <= y IN <<m>> \o SetToSeq(S \ {m})

\* block.leaders: the leading phi / exception-setup operations of the block
RECURSIVE LeadersOf(_, _)
LeadersOf(F, s) ==
    IF s = <<>> \/ F.ops[Head(s)].opcode \notin {"phi", "exc_setup", "exc_catch"} THEN <<>>
    ELSE <<Head(s)>> \o LeadersOf(F, Tail(s))

leaders(F, b) == LeadersOf(F, F.body[b])

----------------------------------------------------------------------------
\* Builder (pykit/ir/builder.py). The object is [curblock, lastop]: curblock is
\* the set holding _curblock (empty for None), lastop is [k, n] with k one of
\* "none" (None), "head", "tail" or "op" (n the operation).

Cursor(k, n) == [k |-> k, n |-> n]

\* Builder.__init__
NewBuilder == [curblock |-> {}, lastop |-> Cursor("none", 0)]

position_at_beginning(B, b) == [curblock |-> {b}, lastop |-> Cursor("head", 0)]

position_at_end(F, B, b) ==
    [curblock |-> {b},
     lastop |-> IF F.body[b] # <<>> THEN Cursor("op", Last(F.body[b])) ELSE Cursor("tail", 0)]

\* op.insert_after(last): i goes right behind last in the list that holds last
InsertAfter(s, last, i) ==
    IF last \notin SeqToSet(s) THEN s
    ELSE LET p == CHOOSE j \in 1..Len(s) : s[j] = last
         IN SubSeq(s, 1, p) \o <<i>> \o SubSeq(s, p + 1, Len(s))

\* Builder.emit past its assert: link operation i at the cursor, move the cursor
emit_at(F, B, i) ==
    LET b == CHOOSE x \in B.curblock : TRUE IN
    IF B.lastop.k = "head" /\ F.body[b] # <<>>
    THEN [F EXCEPT !.body[b] = <<i>> \o @]
    ELSE IF B.lastop.k \in {"head", "tail"}
    THEN [F EXCEPT !.body[b] = Append(@, i)]
    ELSE [F EXCEPT !.body = [x \in DOMAIN F.body |-> InsertAfter(F.body[x], B.lastop.n, i)]]

\* Builder.emit: [F, B, err]; err is TRUE when `assert self._curblock` fails
emit(F, B, i) ==
    IF B.curblock = {} THEN [F |-> F, B |-> B, err |-> TRUE]
    ELSE [F |-> emit_at(F, B, i), B |-> [B EXCEPT !.lastop = Cursor("op", i)], err |-> FALSE]

\* Builder._insert_op
insert_op(F, B, i) ==
    IF B.curblock # {} THEN emit(F, B, i) ELSE [F |-> F, B |-> B, err |-> FALSE]

\* a generated builder method (_generate.py's template): construct the Op,
\* hand it to _insert_op, return it; the new operation's id is the result
gen_method(F, B, op) ==
    LET F2 == [F EXCEPT !.ops = Append(@, op)]
        r == insert_op(F2, B, Len(F2.ops))
    IN [F |-> r.F, B |-> r.B, err |-> r.err, op |-> Len(F2.ops)]

----------------------------------------------------------------------------
\* find_allocas, move_allocas, insert_phis

find_allocas(F) ==
    {i \in SeqToSet(FuncOps(F)) :
        /\ F.ops[i].opcode = "alloca"
        /\ \A u \in Uses(F, i) : F.ops[u].opcode \in {"load", "store"}}

\* the loop of move_allocas over the candidates still to visit
RECURSIVE MoveLoop(_, _, _)
MoveLoop(F, B, as) ==
    IF as = <<>> THEN F
    ELSE IF BlockOf(F, Head(as)) # startblock(F)
    THEN LET r == emit(Unlink(F, {Head(as)}), B, Head(as)) IN MoveLoop(r.F, r.B, Tail(as))
    ELSE MoveLoop(F, B, Tail(as))

move_allocas(F, A) ==
    MoveLoop(F, position_at_beginning(NewBuilder, startblock(F)), SetToSeq(A))

\* the inner loop of insert_phis: one builder.phi per candidate
RECURSIVE PhiLoop(_, _, _, _)
PhiLoop(F, B, P, as) ==
    IF as = <<>> THEN [F |-> F, phis |-> P]
    ELSE LET r == gen_method(F, B, Op("phi", <<>>))
         IN PhiLoop(r.F, r.B, P \cup {<<r.op, Head(as)>>}, Tail(as))

\* the outer loop of insert_phis over the blocks still to visit
RECURSIVE InsertLoop(_, _, _, _, _)
InsertLoop(F, G, P, bs, A) ==
    IF bs = <<>> THEN [F |-> F, phis |-> P]
    ELSE IF Len(Preds(G, Head(bs))) > 1
    THEN LET r == PhiLoop(F, position_at_beginning(NewBuilder, Head(bs)), P, SetToSeq(A))
         IN InsertLoop(r.F, G, r.phis, Tail(bs), A)
    ELSE InsertLoop(F, G, P, Tail(bs), A)

\* returns the function and the phi -> alloca map as a set of <<phi, alloca>>
insert_phis(F, G, A) == InsertLoop(F, G, {}, F.blocks, A)

\* phis[op]
AllocaOf(P, phi) == (CHOOSE e \in P : e[1] = phi)[2]

----------------------------------------------------------------------------
\* compute_dataflow

\* a key with no entry in a {stackvar : value} dict
Unbound == [k |-> "unbound", n |-> 0]

\* the empty dict
EmptyVars(A) == [a \in A |-> Unbound]

\* mergedicts(*dicts): entries of later dicts overwrite those of earlier ones
RECURSIVE mergedicts(_, _)
mergedicts(ds, A) ==
    IF ds = <<>> THEN EmptyVars(A)
    ELSE LET r == mergedicts(SubSeq(ds, 1, Len(ds) - 1), A)
             d == Last(ds)
         IN [a \in A |-> IF d[a] # Unbound THEN d[a] ELSE r[a]]

\* `value in allocas` for an operand
InAllocas(v, A) == v.k = "op" /\ v.n \in A

\* the body of `for op in block.ops`; st is [F, bv, err], err a KeyError
RECURSIVE OpLoop(_, _, _, _)
OpLoop(st, todo, A, P) ==
    IF todo = <<>> \/ st.err THEN st
    ELSE LET i == Head(todo)
             op == st.F.ops[i]
         IN
         IF op.opcode = "alloca" /\ i \in A
         THEN OpLoop([st EXCEPT !.bv[i] = Vundef(i)], Tail(todo), A, P)
         ELSE IF op.opcode = "load" /\ InAllocas(op.args[1], A)
         THEN LET a == op.args[1].n IN
              IF st.bv[a] = Unbound THEN [st EXCEPT !.err = TRUE]
              ELSE OpLoop([st EXCEPT !.F = Unlink(replace_uses(st.F, i, st.bv[a]), {i})],
                          Tail(todo), A, P)
         ELSE IF op.opcode = "store" /\ InAllocas(op.args[2], A)
         THEN OpLoop([st EXCEPT !.bv[op.args[2].n] = op.args[1], !.F = Unlink(st.F, {i})],
                     Tail(todo), A, P)
         ELSE IF op.opcode = "phi"
         THEN IF \E e \in P : e[1] = i
              THEN OpLoop([st EXCEPT !.bv[AllocaOf(P, i)] = Vop(i)], Tail(todo), A, P)
              ELSE [st EXCEPT !.err = TRUE]
         ELSE OpLoop(st, Tail(todo), A, P)

\* `for block in func.blocks`; st is [F, values, err]
RECURSIVE BlockLoop(_, _, _, _, _)
BlockLoop(st, bs, G, A, P) ==
    IF bs = <<>> \/ st.err THEN st
    ELSE LET b == Head(bs)
             ps == Preds(G, b)
             blockvars == mergedicts([j \in 1..Len(ps) |-> st.values[ps[j]]], A)
             r == OpLoop([F |-> st.F, bv |-> blockvars, err |-> FALSE], st.F.body[b], A, P)
         IN BlockLoop([F |-> r.F, values |-> [st.values EXCEPT ![b] = r.bv], err |-> r.err],
                      Tail(bs), G, A, P)

\* a phi filled from the wrong map: the values entering its own block's pass
\* instead of the values leaving the predecessors
FillPhiOwnBlock(st, phi, G, P) ==
    LET ps == Preds(G, BlockOf(st.F, phi))
        a == AllocaOf(P, phi)
        vs == [j \in 1..Len(ps) |-> st.values[BlockOf(st.F, phi)][a]]
    IN IF \E j \in 1..Len(vs) : vs[j] = Unbound
       THEN [st EXCEPT !.err = TRUE]
       ELSE [st EXCEPT !.F.ops[phi].preds = ps, !.F.ops[phi].args = @ \o vs]

\* one round of `for phi in phis`: the predecessor list of the phi's block and,
\* per predecessor, the value leaving it
FillPhi(st, phi, G, P) ==
    LET ps == Preds(G, BlockOf(st.F, phi))
        a == AllocaOf(P, phi)
        vs == [j \in 1..Len(ps) |-> st.values[ps[j]][a]]
    IN IF \E j \in 1..Len(vs) : vs[j] = Unbound
       THEN [st EXCEPT !.err = TRUE]
       ELSE [st EXCEPT !.F.ops[phi].preds = ps, !.F.ops[phi].args = @ \o vs]

RECURSIVE PhiFill(_, _, _, _)
PhiFill(st, todo, G, P) ==
    IF todo = <<>> \/ st.err THEN st
    ELSE PhiFill(FillPhi(st, Head(todo), G, P), Tail(todo), G, P)

\* returns [F, values, err]; err is TRUE when a lookup raised KeyError
compute_dataflow(F, G, A, P) ==
    LET s0 == [F |-> F, values |-> [b \in DOMAIN F.body |-> EmptyVars(A)], err |-> FALSE]
        s1 == BlockLoop(s0, F.blocks, G, A, P)
        s2 == PhiFill(s1, SetToSeq({e[1] : e \in P}), G, P)
    IN IF s2.err THEN s2 ELSE [s2 EXCEPT !.F = Unlink(s2.F, A)]

----------------------------------------------------------------------------
\* prune_phis

\* a pruning loop that deletes unused phis and leaves every other phi alone
RECURSIVE PruneLoopUnused(_, _)
PruneLoopUnused(F, todo) ==
    IF todo = <<>> THEN F
    ELSE IF F.ops[Head(todo)].opcode = "phi" /\ Uses(F, Head(todo)) = {}
         THEN PruneLoopUnused(Unlink(F, {Head(todo)}), Tail(todo))
         ELSE PruneLoopUnused(F, Tail(todo))

RECURSIVE PruneLoop(_, _)
PruneLoop(F, todo) ==
    IF todo = <<>> THEN F
    ELSE LET i == Head(todo)
             op == F.ops[i]
         IN
         IF op.opcode = "phi" /\ Uses(F, i) = {}
         THEN PruneLoop(Unlink(F, {i}), Tail(todo))
         ELSE IF op.opcode = "phi" /\ Cardinality(SeqToSet(op.args)) = 1
         THEN PruneLoop(Unlink(replace_uses(F, i, op.args[1]), {i}), Tail(todo))
         ELSE PruneLoop(F, Tail(todo))

prune_phis(F) == PruneLoop(F, FuncOps(F))

----------------------------------------------------------------------------
\* merge_blocks, simplify

Front(s) == SubSeq(s, 1, Len(s) - 1)

\* returns [F, err]; err is TRUE when an assert fails (or pred has no terminator)
merge_blocks(F, pred, succ) ==
    IF F.body[pred] = <<>> THEN [F |-> F, err |-> TRUE]
    ELSE IF terminator(F, pred).opcode # "jump" THEN [F |-> F, err |-> TRUE]
    ELSE IF terminator(F, pred).args[1] # Vblock(succ) THEN [F |-> F, err |-> TRUE]
    ELSE [F |-> [F EXCEPT !.body = [b \in DOMAIN F.body |->
                        IF b = pred THEN Front(F.body[pred]) \o
                                         (IF succ = pred THEN <<>> ELSE F.body[succ])
                        ELSE IF b = succ THEN <<>> ELSE F.body[b]],
                    !.blocks = Without(F.blocks, {succ})],
          err |-> FALSE]

Reverse(s) == [j \in 1..Len(s) |-> s[Len(s) + 1 - j]]

\* `for block in reversed(list(func.blocks))`; st is [F, err]
RECURSIVE SimplifyLoop(_, _, _)
SimplifyLoop(st, bs, G) ==
    IF bs = <<>> \/ st.err THEN st
    ELSE LET block == Head(bs)
             ps == Preds(G, block)
         IN
         IF Len(ps) = 1 /\ leaders(st.F, block) = <<>>
         THEN LET pred == ps[1]
                  exc_block == \E l \in SeqToSet(leaders(st.F, pred)) :
                                   st.F.ops[l].opcode = "exc_setup"
              IN IF ~exc_block /\ Cardinality(Succs(G, pred)) = 1
                 THEN SimplifyLoop(merge_blocks(st.F, pred, block), Tail(bs), G)
                 ELSE SimplifyLoop(st, Tail(bs), G)
         ELSE SimplifyLoop(st, Tail(bs), G)

simplify(F, G) == SimplifyLoop([F |-> F, err |-> FALSE], Reverse(F.blocks), G)

----------------------------------------------------------------------------
\* Control flow as the terminators state it (independent of the Graph)

\* the blocks the terminator of block p names as targets
Transfers(F, p) ==
    IF F.body[p] = <<>> THEN {}
    ELSE {a.n : a \in {x \in SeqToSet(terminator(F, p).args) : x.k = "block"}}

\* the blocks reachable from the set S along control transfers, never entering x
RECURSIVE ReachAvoiding(_, _, _)
ReachAvoiding(F, S, x) ==
    LET T == (S \cup UNION {Transfers(F, p) : p \in S}) \ {x} IN
    IF T = S THEN S ELSE ReachAvoiding(F, T, x)

\* the blocks reachable from the entry block (0 is no block: nothing is avoided)
Reachable(F) == ReachAvoiding(F, {startblock(F)}, 0)

\* every path from the entry to b passes through x
Dominates(F, x, b) == x = b \/ b \notin ReachAvoiding(F, {startblock(F)} \ {x}, x)

----------------------------------------------------------------------------
\* The functions the specifications start from. Block b owns the operation ids
\* 4(b-1)+1 .. 4(b-1)+3 for its body and 4b for its terminator; the allocas
\* follow the last block's ids. Blocks are stored in the order 1..N, so a CFG
\* with an edge from a higher to a lower block stores a block before its
\* predecessor.

Slot(b, j) == 4 * (b - 1) + j

\* slot x, slot y of a function of N blocks
SlotX(N) == 4 * N + 1
SlotY(N) == 4 * N + 2

MkFunc(N, term, shp, ab, na) ==
    [blocks |-> [b \in 1..N |-> b],
     body   |-> [b \in 1..N |->
                    (IF b = ab THEN [j \in 1..na |-> 4 * N + j] ELSE <<>>)
                    \o [j \in 1..Len(shp[b]) |-> Slot(b, j)] \o <<4 * b>>],
     ops    |-> [i \in 1..(4 * N + na) |->
                    IF i > 4 * N THEN Op("alloca", <<>>)
                    ELSE LET b == ((i - 1) \div 4) + 1
                             j == ((i - 1) % 4) + 1
                         IN IF j = 4 THEN term[b]
                            ELSE IF j <= Len(shp[b]) THEN shp[b][j]
                            ELSE Op("nop", <<>>)],
     bmeta  |-> [b \in 1..N |-> {}]]

\* terminators of well-terminated blocks without exceptions
Jumps(N)    == {Op("jump", <<Vblock(t)>>) : t \in 1..N}
Branches(N) == {Op("cbranch", <<Vconst(0), Vblock(e[1]), Vblock(e[2])>>) :
                    e \in {x \in (1..N) \X (1..N) : x[1] < x[2]}}
PlainTerms(N) == Jumps(N) \cup Branches(N) \cup {Op("ret", <<>>)}

\* block bodies that read and write slot x
ShNone      == <<>>
ShLd(b, N)  == <<Op("load", <<Vop(SlotX(N))>>), Op("call", <<Vop(Slot(b, 1))>>)>>
ShSt(b, N)  == <<Op("store", <<Vconst(b), Vop(SlotX(N))>>)>>
ShStLd(b, N) == <<Op("store", <<Vconst(b), Vop(SlotX(N))>>),
                  Op("load", <<Vop(SlotX(N))>>), Op("call", <<Vop(Slot(b, 2))>>)>>
ShLdSt(b, N) == <<Op("load", <<Vop(SlotX(N))>>), Op("call", <<Vop(Slot(b, 1))>>),
                  Op("store", <<Vconst(b), Vop(SlotX(N))>>)>>
\* the pointer x escapes to a call
ShEsc(b, N) == <<Op("call", <<Vop(SlotX(N))>>)>>
\* the pointer x is stored into slot y, and y is read back
ShPtr(b, N) == <<Op("store", <<Vop(SlotX(N)), Vop(SlotY(N))>>), Op("load", <<Vop(SlotY(N))>>)>>
\* a load through the pointer that block p read back from y
ShDeref(b, p) == <<Op("load", <<Vop(Slot(p, 2))>>), Op("call", <<Vop(Slot(b, 1))>>)>>

ScalarShapes(b, N) == {ShNone, ShLd(b, N), ShSt(b, N), ShStLd(b, N), ShLdSt(b, N)}

\* one slot x, allocated in the entry block, read and written anywhere
ScalarFuncs(N) ==
    {MkFunc(N, term, shp, 1, 1) :
        term \in [1..N -> PlainTerms(N)],
        shp \in {f \in [1..N -> UNION {ScalarShapes(b, N) : b \in 1..N}] :
                    \A b \in 1..N : f[b] \in ScalarShapes(b, N)}}

\* two slots, allocated in block ab: x's pointer is stored into y in block p and
\* dereferenced in block q; the remaining blocks are empty, store to x, or let
\* x escape
PtrShape(b, p, q, r, N) ==
    IF b = p THEN ShPtr(b, N)
    ELSE IF b = q THEN ShDeref(b, p)
    ELSE IF r = 0 THEN ShNone ELSE IF r = 1 THEN ShSt(b, N) ELSE ShEsc(b, N)

\* definitions dominate their uses: the allocas' block dominates every block,
\* and block p dominates block q
PtrFuncs(N) ==
    {F \in {MkFunc(N, term, [b \in 1..N |-> PtrShape(b, pq[1], pq[2], r, N)], ab, 2) :
                term \in [1..N -> PlainTerms(N)],
                pq \in {x \in (1..N) \X (1..N) : x[1] # x[2]},
                r \in 0..2,
                ab \in 1..2} :
        LET ab == BlockOf(F, SlotX(N))
            p == BlockOf(F, CHOOSE i \in 1..Len(F.ops) :
                                F.ops[i] = Op("load", <<Vop(SlotY(N))>>))
            q == BlockOf(F, CHOOSE i \in 1..Len(F.ops) :
                                F.ops[i].opcode = "load" /\ F.ops[i].args[1].n <= 4 * N)
        IN /\ \A b \in 1..N : Dominates(F, ab, b)
           /\ Dominates(F, p, q)}

\* the diamond Entry -> (A, B) -> C of the documentation: blocks 1..4
Diamond ==
    MkFunc(4,
           <<Op("cbranch", <<Vconst(0), Vblock(2), Vblock(3)>>),
             Op("jump", <<Vblock(4)>>), Op("jump", <<Vblock(4)>>),
             Op("ret", <<Vop(Slot(4, 1))>>)>>,
           <<ShSt(1, 4), ShSt(2, 4), ShSt(3, 4), <<Op("load", <<Vop(SlotX(4))>>)>> >>,
           1, 1)

----------------------------------------------------------------------------
\* run(func): cfg, then the passes of ssa, one action per call

Idle == /\ CFG = <<>> /\ allocas = {} /\ phis = {} /\ values = <<>>
        /\ dom = <<>> /\ bld = NewBuilder

Init ==
    /\ pc = "start"
    /\ func \in ScalarFuncs(NumBlocks) \cup PtrFuncs(NumBlocks) \cup {Diamond}
    /\ func0 = func
    /\ Idle

Cfg ==
    /\ pc = "start"
    /\ IF cfg_ok(func)
       THEN pc' = "cfg" /\ CFG' = cfg(func)
       ELSE pc' = "AssertionError" /\ CFG' = CFG
    /\ UNCHANGED <<func, func0, allocas, phis, values, dom, bld>>

FindAllocas ==
    /\ pc = "cfg"
    /\ allocas' = find_allocas(func)
    /\ pc' = "found"
    /\ UNCHANGED <<func, func0, CFG, phis, values, dom, bld>>

MoveAllocas ==
    /\ pc = "found"
    /\ func' = move_allocas(func, allocas)
    /\ pc' = "moved"
    /\ UNCHANGED <<func0, CFG, allocas, phis, values, dom, bld>>

InsertPhis ==
    /\ pc = "moved"
    /\ LET r == insert_phis(func, CFG, allocas) IN func' = r.F /\ phis' = r.phis
    /\ pc' = "phis"
    /\ UNCHANGED <<func0, CFG, allocas, values, dom, bld>>

ComputeDataflow ==
    /\ pc = "phis"
    /\ LET r == compute_dataflow(func, CFG, allocas, phis) IN
        /\ func' = r.F
        /\ values' = r.values
        /\ pc' = IF r.err THEN "KeyError" ELSE "dataflow"
    /\ UNCHANGED <<func0, CFG, allocas, phis, dom, bld>>

PrunePhis ==
    /\ pc = "dataflow"
    /\ func' = prune_phis(func)
    /\ pc' = "pruned"
    /\ UNCHANGED <<func0, CFG, allocas, phis, values, dom, bld>>

Simplify ==
    /\ pc = "pruned"
    /\ LET r == simplify(func, CFG) IN
        /\ func' = r.F
        /\ pc' = IF r.err THEN "AssertionError" ELSE "done"
    /\ UNCHANGED <<func0, CFG, allocas, phis, values, dom, bld>>

\* the same functions, without unreachable blocks
InitReach == Init /\ Reachable(func) = SeqToSet(func.blocks)

Next == Cfg \/ FindAllocas \/ MoveAllocas \/ InsertPhis \/ ComputeDataflow
        \/ PrunePhis \/ Simplify

Spec == Init /\ [][Next]_vars

SpecReach == InitReach /\ [][Next]_vars

----------------------------------------------------------------------------
\* Properties of run(func)

LiveOps(F) == SeqToSet(FuncOps(F))

\* the blocks of the function whose terminator transfers control to b, in block order
ActualPreds(F, b) == SelectSeq(F.blocks, LAMBDA p : b \in Transfers(F, p))

\* slot a of function F is written by some store and read by no load
StoredNeverLoaded(F, a) ==
    /\ \E i \in LiveOps(F) : F.ops[i].opcode = "store" /\ F.ops[i].args[2] = Vop(a)
    /\ \A i \in LiveOps(F) : F.ops[i].opcode = "load" => F.ops[i].args[1] # Vop(a)

\* every use of alloca a reads the slot by a load of a or writes it by a store to a
OnlyLoadedAndStored(F, a) ==
    \A u \in Uses(F, a) :
        \/ F.ops[u].opcode = "load" /\ F.ops[u].args[1] = Vop(a)
        \/ F.ops[u].opcode = "store" /\ F.ops[u].args[2] = Vop(a) /\ F.ops[u].args[1] # Vop(a)

\* C1: after run(func) completes, no alloca that find_allocas selected is left in
\* the function, and no load or store whose pointer operand is such an alloca is
\* left in any block.
C1_PromotionSound ==
    pc = "done" =>
        \A i \in LiveOps(func) :
            /\ i \notin allocas
            /\ func.ops[i].opcode = "load" => ~InAllocas(func.ops[i].args[1], allocas)
            /\ func.ops[i].opcode = "store" => ~InAllocas(func.ops[i].args[2], allocas)

\* C3: no lookup of a candidate slot's current value in compute_dataflow (for a
\* load, or for a predecessor's outgoing map when a phi is filled) misses its key,
\* whatever the stored order of the blocks.
C3_NoUnboundLookup == pc # "KeyError"

\* C6: find_allocas returns exactly the allocas every use of which is a load of
\* that pointer or a store to that pointer; an alloca whose pointer is passed to
\* a call or stored as a value is not in the set.
C6_ExactCandidates ==
    pc = "found" =>
        allocas = {a \in LiveOps(func) :
                      func.ops[a].opcode = "alloca" /\ OnlyLoadedAndStored(func, a)}

\* C8: for a candidate alloca that is stored to but never loaded, after run(func)
\* its stores and the alloca are gone and no phi inserted for that slot is left.
C8_NoPhiForUnreadSlot ==
    pc = "done" =>
        \A a \in allocas :
            StoredNeverLoaded(func0, a) =>
                /\ a \notin LiveOps(func)
                /\ \A i \in LiveOps(func) :
                       func.ops[i].opcode = "store" => func.ops[i].args[2] # Vop(a)
                /\ \A e \in phis : e[2] = a => e[1] \notin LiveOps(func)

\* C2: when compute_dataflow returns, every inserted phi lists exactly the
\* predecessors of its block, in the order of the transposed CFG, and as many
\* values, the i-th being the value the i-th predecessor's outgoing map holds for
\* the phi's slot; in the diamond the phi of C pairs A with 2 and B with 3 and
\* has replaced the load of C.
C2_PhiOperands ==
    pc = "dataflow" =>
        /\ \A e \in phis :
            LET op == func.ops[e[1]]
                b == BlockOf(func, e[1])
            IN /\ op.preds = Preds(CFG, b)
               /\ SeqToSet(op.preds) = SeqToSet(ActualPreds(func, b))
               /\ Len(op.preds) = Cardinality(SeqToSet(op.preds))
               /\ Len(op.args) = Len(op.preds)
               /\ \A j \in 1..Len(op.preds) : op.args[j] = values[op.preds[j]][e[2]]
        /\ func0 = Diamond =>
            \E e \in phis :
                /\ func.body[4] = <<e[1], 4 * 4>>
                /\ func.ops[e[1]].preds = <<2, 3>>
                /\ func.ops[e[1]].args = <<Vconst(2), Vconst(3)>>
                /\ func.ops[4 * 4].args = <<Vop(e[1])>>

\* the diamond has been through compute_dataflow
C2_Witness == pc = "dataflow" /\ func0 = Diamond /\ phis # {}

----------------------------------------------------------------------------
\* cfg(func) alone, over every terminator kind

\* conditional branches with any pair of targets
AllBranches(N) == {Op("cbranch", <<Vconst(0), Vblock(a), Vblock(b)>>) : a \in 1..N, b \in 1..N}

\* the values an exc_target entry can take: absent, or a block
Targets(N) == {{}} \cup {{t} : t \in 1..N}

\* exc_throw, with or without exc_target among the operation's metadata
Throws(N) == {OpMeta("exc_throw", <<>>, m) : m \in Targets(N)}

\* a block that ends in an operation that is no terminator
NoTerms == {Op("call", <<>>)}

AnyTerms(N) == Jumps(N) \cup AllBranches(N) \cup {Op("ret", <<>>)} \cup Throws(N) \cup NoTerms

\* a block's terminator and the block's own exc_target entry (only blocks that
\* throw carry one)
BlockChoices(N) ==
    {<<t, {}>> : t \in AnyTerms(N)} \cup {<<t, m>> : t \in Throws(N), m \in Targets(N)}

\* blocks that hold their terminator only
CfgFuncs(N) ==
    {[MkFunc(N, [b \in 1..N |-> ch[b][1]], [b \in 1..N |-> ShNone], 1, 0)
         EXCEPT !.bmeta = [b \in 1..N |-> ch[b][2]]] :
        ch \in [1..N -> BlockChoices(N)]}

InitCfg ==
    /\ pc = "start"
    /\ func \in CfgFuncs(NumBlocks)
    /\ func0 = func
    /\ Idle

SpecCfg == InitCfg /\ [][Cfg]_vars

\* the edges the terminator of block b dictates
Dictated(F, b) ==
    LET op == terminator(F, b) IN
    IF op.opcode = "jump" THEN {op.args[1].n}
    ELSE IF op.opcode = "cbranch" THEN {op.args[2].n, op.args[3].n}
    ELSE IF op.opcode = "ret" THEN {}
    ELSE {OrExit(op.meta)}

\* C4: in the graph cfg(func) returns, the edges out of every block are exactly
\* those its terminator dictates: jump T one edge to T; cbranch c, A, B edges to
\* A and to B; ret none; exc_throw one edge to the block its exc_target metadata
\* names, or to 'pykit.exit' without one; and there are no other edges.
C4_EdgesFromTerminators ==
    pc = "cfg" =>
        /\ \A i \in 1..Len(func.blocks) :
               Succs(CFG, func.blocks[i]) = Dictated(func, func.blocks[i])
        /\ \A i \in 1..Len(CFG) : CFG[i][1] \in SeqToSet(func.blocks)

----------------------------------------------------------------------------
\* compute_dominators(func, cfg), one action per step of its loops

\* an initialisation that leaves every entry but the start block's empty
InitDomsEmpty(F) ==
    [n \in {Exit} \cup SeqToSet(F.blocks) |->
        IF n = startblock(F) THEN {startblock(F)} ELSE {}]

\* the dominators dict after the initialisation: the start block's entry is set
\* first and then every block's entry, the start block's too, is set to the set
\* of all blocks; any other key reads as the defaultdict's empty set
InitDoms(F) ==
    LET first == [n \in {Exit} \cup SeqToSet(F.blocks) |->
                     IF n = startblock(F) THEN {startblock(F)} ELSE {}]
    IN [n \in DOMAIN first |->
           IF n \in SeqToSet(F.blocks) THEN SeqToSet(F.blocks) ELSE first[n]]

\* set.intersection(*pred_doms or [set()])
Intersection(ds) ==
    IF ds = <<>> THEN {}
    ELSE {x \in ds[1] : \A j \in 1..Len(ds) : x \in ds[j]}

\* new_doms of one block
new_doms(D, G, n) ==
    LET ps == Preds(G, n) IN
    {n} \cup Intersection([j \in 1..Len(ps) |-> D[ps[j]]])

\* functions of terminators only; a throwing block names no handler
DomFuncs(N) ==
    {MkFunc(N, term, [b \in 1..N |-> ShNone], 1, 0) :
        term \in [1..N -> PlainTerms(N) \cup {OpMeta("exc_throw", <<>>, {})}]}

InitDom ==
    /\ pc = "start"
    /\ func \in DomFuncs(NumBlocks)
    /\ func0 = func
    /\ Idle

\* cfg(func), then compute_dominators up to its loop
DomInit ==
    /\ pc = "start"
    /\ CFG' = cfg(func)
    /\ dom' = [d |-> InitDoms(func), todo |-> {}, changed |-> TRUE]
    /\ pc' = "while"
    /\ UNCHANGED <<func, func0, allocas, phis, values, bld>>

\* while changed: start the next pass over the nodes of the graph
DomPass ==
    /\ pc = "while" /\ dom.changed
    /\ dom' = [dom EXCEPT !.changed = FALSE, !.todo = SeqToSet(Nodes(CFG))]
    /\ pc' = "for"
    /\ UNCHANGED <<func, func0, CFG, allocas, phis, values, bld>>

\* the body of the for loop for one node; the graph yields its nodes in an
\* order of its own, so any node not yet visited in this pass may come next
DomVisit ==
    /\ pc = "for"
    /\ \E n \in dom.todo :
        LET new == new_doms(dom.d, CFG, n) IN
        dom' = [d       |-> [dom.d EXCEPT ![n] = new],
                todo    |-> dom.todo \ {n},
                changed |-> dom.changed \/ new # dom.d[n]]
    /\ UNCHANGED <<pc, func, func0, CFG, allocas, phis, values, bld>>

\* the for loop is exhausted
DomEndPass ==
    /\ pc = "for" /\ dom.todo = {}
    /\ pc' = "while"
    /\ UNCHANGED <<func, func0, CFG, allocas, phis, values, dom, bld>>

\* the loop ends without a change: return dominators
DomReturn ==
    /\ pc = "while" /\ ~dom.changed
    /\ pc' = "domdone"
    /\ UNCHANGED <<func, func0, CFG, allocas, phis, values, dom, bld>>

NextDom == DomInit \/ DomPass \/ DomVisit \/ DomEndPass \/ DomReturn

SpecDom == InitDom /\ [][NextDom]_vars

\* the interpreter runs the function to its end
SpecDomFair == InitDom /\ [][NextDom]_vars /\ WF_vars(NextDom)

\* C5: compute_dominators returns, for each block reachable from the entry,
\* exactly the blocks every path from the entry to it passes through; the entry's
\* set is {entry}, every block is in its own set and the entry is in the set of
\* every reachable block, also when the entry has incoming edges.
C5_ExactDominators ==
    pc = "domdone" =>
        /\ dom.d[startblock(func)] = {startblock(func)}
        /\ \A b \in SeqToSet(func.blocks) : b \in dom.d[b]
        /\ \A b \in Reachable(func) :
               /\ startblock(func) \in dom.d[b]
               /\ dom.d[b] = {x \in SeqToSet(func.blocks) : Dominates(func, x, b)}

\* between two states of a run of compute_dominators no block's set gains an
\* element or loses the block itself
DomShrinks ==
    pc \in {"while", "for"} =>
        \A b \in SeqToSet(func.blocks) :
            dom'.d[b] \subseteq dom.d[b] /\ b \in dom'.d[b]

\* C9: compute_dominators terminates: from one step to the next each block's set
\* never gains an element and never drops below {b}, and the loop reaches a
\* pass that changes no set, after which the function returns.
C9_Terminates == [][DomShrinks]_vars /\ <>(pc = "domdone")

\* compute_dominators has returned, some block's set has shrunk on the way, and
\* the function has a loop through the entry
C9_Witness ==
    /\ pc = "domdone"
    /\ \E b \in SeqToSet(func.blocks) : dom.d[b] # SeqToSet(func.blocks)
    /\ startblock(func) \in UNION {Transfers(func, b) : b \in SeqToSet(func.blocks)}

----------------------------------------------------------------------------
\* prune_phis called twice on a function of phis

\* Number of phis of the functions prune_phis is called on.
NumPhis == 2

\* what a phi can have as an incoming value: a constant or a phi
PhiVals(N) == {Vconst(1), Vconst(2)} \cup {Vop(i) : i \in 1..N}

\* one block of two predecessors: phis 1..N with two incoming values each, a
\* call that takes the phis of `used` as arguments, and a ret
PhiFunc(N, in, used) ==
    [blocks |-> <<1>>,
     body   |-> <<[j \in 1..(N + 2) |-> j]>>,
     ops    |-> [i \in 1..(N + 2) |->
                    IF i <= N THEN Op("phi", in[i])
                    ELSE IF i = N + 1
                    THEN Op("call", [j \in 1..Len(SetToSeq(used)) |-> Vop(SetToSeq(used)[j])])
                    ELSE Op("ret", <<>>)],
     bmeta  |-> <<{}>>]

PhiFuncs(N) ==
    {PhiFunc(N, in, used) : in \in [1..N -> [1..2 -> PhiVals(N)]], used \in SUBSET (1..N)}

InitPrune ==
    /\ pc = "dataflow"
    /\ func \in PhiFuncs(NumPhis)
    /\ func0 = func
    /\ Idle

\* prune_phis(func) on the result of prune_phis(func)
PrunePhisAgain ==
    /\ pc = "pruned"
    /\ func' = prune_phis(func)
    /\ pc' = "pruned2"
    /\ UNCHANGED <<func0, CFG, allocas, phis, values, dom, bld>>

NextPrune == PrunePhis \/ PrunePhisAgain

SpecPrune == InitPrune /\ [][NextPrune]_vars

\* the phis of F in its blocks
LivePhis(F) == {i \in LiveOps(F) : F.ops[i].opcode = "phi"}

\* the phis of F whose incoming values are all identical
Trivial(F) == {i \in LivePhis(F) : Cardinality(SeqToSet(F.ops[i].args)) = 1}

IsPhi(F, v) == v.k = "op" /\ F.ops[v.n].opcode = "phi"

\* the call that takes func to func' has removed every phi whose incoming values
\* were all identical, and where that value is no phi itself the operations that
\* had the phi as an operand have the value in its place
TrivialReplaced ==
    \A i \in Trivial(func) :
        /\ i \notin LiveOps(func')
        /\ ~IsPhi(func, func.ops[i].args[1]) =>
               \A u \in LiveOps(func') : \A j \in 1..Len(func.ops[u].args) :
                   func.ops[u].args[j] = Vop(i) =>
                       func'.ops[u].args[j] = func.ops[i].args[1]

\* no phi of F has a phi as an incoming value
NoPhiFeedsPhi(F) ==
    \A i \in LivePhis(F) : \A j \in 1..Len(F.ops[i].args) : ~IsPhi(F, F.ops[i].args[j])

\* C7: after one call of prune_phis every phi whose incoming values were all
\* identical has been replaced by that value and removed, and a second call on
\* the result deletes no phi and rewrites no operand.
C7_Idempotent ==
    [][/\ pc = "dataflow" => TrivialReplaced
       /\ pc = "pruned" => func' = func]_vars

\* C7 as it holds: one call replaces and removes every phi whose incoming values
\* were all identical; a second call changes nothing when no phi of the function
\* prune_phis was first called on had a phi among its incoming values.
C7_IdempotentWithoutPhiChains ==
    [][/\ pc = "dataflow" => TrivialReplaced
       /\ (pc = "pruned" /\ NoPhiFeedsPhi(func0)) => func' = func]_vars

\* prune_phis has run twice on a function without phis of phis, the first call
\* replaced a phi the call used and kept another
C7_Witness ==
    /\ pc = "pruned2"
    /\ NoPhiFeedsPhi(func0)
    /\ \E i \in Trivial(func0) : Vop(i) \in SeqToSet(func0.ops[NumPhis + 1].args)
    /\ LivePhis(func) # {}

----------------------------------------------------------------------------
\* A Builder on a function: positioning calls, emit(op) and generated methods

\* Number of operations constructed for insertion through the Builder.
MaxEmit == 3

\* the function the Builder is created for: every block holds a ret
BuilderFunc ==
    MkFunc(NumBlocks, [b \in 1..NumBlocks |-> Op("ret", <<>>)],
           [b \in 1..NumBlocks |-> ShNone], 1, 0)

\* the operations callers construct
NewOps == {Op("alloca", <<>>), Op("call", <<>>)}

\* Builder(func) has returned
InitBuilder ==
    /\ pc = "built"
    /\ func = BuilderFunc
    /\ func0 = func
    /\ Idle

PositionAtBeginning ==
    /\ pc # "AssertionError"
    /\ \E b \in SeqToSet(func.blocks) : bld' = position_at_beginning(bld, b)
    /\ pc' = "positioned"
    /\ UNCHANGED <<func, func0, CFG, allocas, phis, values, dom>>

PositionAtEnd ==
    /\ pc # "AssertionError"
    /\ \E b \in SeqToSet(func.blocks) : bld' = position_at_end(func, bld, b)
    /\ pc' = "positioned"
    /\ UNCHANGED <<func, func0, CFG, allocas, phis, values, dom>>

\* the caller constructs an operation and passes it to builder.emit(op)
Emit ==
    /\ pc # "AssertionError"
    /\ Len(func.ops) < Len(BuilderFunc.ops) + MaxEmit
    /\ \E op \in NewOps :
        LET F2 == [func EXCEPT !.ops = Append(@, op)]
            r == emit(F2, bld, Len(F2.ops))
        IN /\ func' = r.F
           /\ bld' = r.B
           /\ pc' = IF r.err THEN "AssertionError" ELSE "emitted"
    /\ UNCHANGED <<func0, CFG, allocas, phis, values, dom>>

\* the caller calls a generated method, builder.alloca(...) or builder.call(...)
BuilderMethod ==
    /\ pc # "AssertionError"
    /\ Len(func.ops) < Len(BuilderFunc.ops) + MaxEmit
    /\ \E op \in NewOps :
        LET r == gen_method(func, bld, op) IN
        /\ func' = r.F
        /\ bld' = r.B
        /\ pc' = IF r.err THEN "AssertionError" ELSE "returned"
    /\ UNCHANGED <<func0, CFG, allocas, phis, values, dom>>

NextBuilder == PositionAtBeginning \/ PositionAtEnd \/ Emit \/ BuilderMethod

SpecBuilder == InitBuilder /\ [][NextBuilder]_vars

\* C10: inserting an operation through the Builder while no cursor is set fails
\* with an assertion error, for emit(op) and for the generated methods alike; no
\* such call returns normally with its operation left out of every block.
C10_UnpositionedInsertFails ==
    [][(bld.curblock = {} /\ Len(func'.ops) > Len(func.ops))
           => (pc' = "AssertionError" /\ func'.body = func.body)]_vars

----------------------------------------------------------------------------
\* The function run(func) leaves behind, after simplify

\* C12: simplify never removes the entry block: the block that was func.startblock
\* is still a block of the function after run(func), and every block that was
\* reachable from the entry beforehand was merged into its predecessor (and so is
\* no block any more) or is still reachable from the entry.
C12_EntryKept ==
    pc = "done" =>
        /\ startblock(func0) \in SeqToSet(func.blocks)
        /\ \A b \in Reachable(func0) :
               b \notin SeqToSet(func.blocks) \/ b \in Reachable(func)

\* C13: after run(func) every phi left in the function has as many values as
\* predecessors, and every block in its predecessor list is still a block of the
\* function whose terminator transfers control to the phi's block.
C13_PhiPredsSurvive ==
    pc = "done" =>
        \A i \in LiveOps(func) :
            func.ops[i].opcode = "phi" =>
                /\ Len(func.ops[i].args) = Len(func.ops[i].preds)
                /\ \A j \in 1..Len(func.ops[i].preds) :
                       /\ func.ops[i].preds[j] \in SeqToSet(func.blocks)
                       /\ BlockOf(func, i) \in Transfers(func, func.ops[i].preds[j])

----------------------------------------------------------------------------
\* simplify(func, cfg(func)) on functions of every terminator kind

\* simplify on the graph cfg just returned
SimplifyCfg ==
    /\ pc = "cfg"
    /\ LET r == simplify(func, CFG) IN
        /\ func' = r.F
        /\ pc' = IF r.err THEN "AssertionError" ELSE "simplified"
    /\ UNCHANGED <<func0, CFG, allocas, phis, values, dom, bld>>

NextSimplify == Cfg \/ SimplifyCfg

SpecSimplify == InitCfg /\ [][NextSimplify]_vars

\* the calls merge_blocks(func, pred, block) the loop of simplify makes, each
\* with the function as it is when the call is made; a call that raises is the
\* last one
RECURSIVE MergeCalls(_, _, _)
MergeCalls(F, bs, G) ==
    IF bs = <<>> THEN <<>>
    ELSE LET block == Head(bs)
             ps == Preds(G, block)
         IN
         IF /\ Len(ps) = 1
            /\ leaders(F, block) = <<>>
            /\ ~\E l \in SeqToSet(leaders(F, ps[1])) : F.ops[l].opcode = "exc_setup"
            /\ Cardinality(Succs(G, ps[1])) = 1
         THEN LET r == merge_blocks(F, ps[1], block) IN
              <<[F |-> F, pred |-> ps[1], block |-> block]>>
                  \o (IF r.err THEN <<>> ELSE MergeCalls(r.F, Tail(bs), G))
         ELSE MergeCalls(F, Tail(bs), G)

\* the merge precondition of one call
MergePre(c) ==
    /\ c.pred \in SeqToSet(c.F.blocks)
    /\ c.block \in SeqToSet(c.F.blocks)
    /\ c.F.body[c.pred] # <<>>
    /\ terminator(c.F, c.pred).opcode = "jump"
    /\ terminator(c.F, c.pred).args[1] = Vblock(c.block)

\* C11: every call merge_blocks(func, pred, block) that simplify makes finds pred
\* and block both still blocks of the function and pred ending in a jump to
\* block, for every CFG and block order, predecessors that end in exc_throw with
\* one target and chains of merges included.
C11_MergePrecondition ==
    [][SimplifyCfg =>
          LET calls == MergeCalls(func, Reverse(func.blocks), CFG) IN
          \A k \in 1..Len(calls) : MergePre(calls[k])]_vars

====
